---------------------------- MODULE Spec2Model ----------------------------
(***************************************************************************)
(* Model of src/quantum_circuit_engine.py: the circuit factory             *)
(* (create_circuit), the gate dispatcher (apply_gate), the three-tier      *)
(* visualisation pipeline (visualize_circuit) and the tool wrappers that   *)
(* work on the process-wide current_circuit slot.                          *)
(*                                                                         *)
(* A circuit object lives in `heap` under a handle; variables of the       *)
(* program hold handles (or None).  The library calls the program makes    *)
(* (QuantumCircuit(n), circuit.h/x/y/z/cx, circuit.depth(), pyplot) are    *)
(* modelled by what they do to the values the program reads back.          *)
(***************************************************************************)
EXTENDS Integers, Sequences, FiniteSets, TLC

VARIABLES
    heap,             \* handle -> circuit object [num_qubits, data]
    qc,               \* the caller's variable `qc` (quick_demo, test harness)
    current_circuit,  \* the module global of the tool wrappers
    open_figures,     \* number of pyplot figures opened and not closed
    call,             \* the last call made: operation and arguments
    ret,              \* what that call gave back: return value or raise
    old,              \* history: the heap as it was when the call was made
    last_create       \* history: num_qubits of the last create_quantum_circuit

vars == <<heap, qc, current_circuit, open_figures, call, ret, old, last_create>>

(***************************************************************************)
(* Bounds of the model.                                                    *)
(***************************************************************************)
MaxQubits == 2
MaxGates == 2
MaxFigures == 1

None == "None"
Handles == {"qc1", "qc2"}
NoControl == <<>>

\* Inputs the callers are given.
QubitCounts == -1 .. MaxQubits
Operands == -(MaxQubits + 1) .. MaxQubits
Controls == {NoControl} \cup {<<c>> : c \in Operands}

(***************************************************************************)
(* Strings are sequences of characters; gate_name.lower().strip().         *)
(***************************************************************************)
LowerChar(ch) ==
    CASE ch = "H" -> "h"
      [] ch = "X" -> "x"
      [] ch = "Y" -> "y"
      [] ch = "Z" -> "z"
      [] ch = "C" -> "c"
      [] OTHER -> ch

Lower(s) == [i \in 1 .. Len(s) |-> LowerChar(s[i])]

IsSpace(ch) == ch \in {" ", "\t"}

RECURSIVE LStrip(_)
LStrip(s) == IF s # <<>> /\ IsSpace(Head(s)) THEN LStrip(Tail(s)) ELSE s

RECURSIVE RStrip(_)
RStrip(s) ==
    IF s # <<>> /\ IsSpace(s[Len(s)]) THEN RStrip(SubSeq(s, 1, Len(s) - 1)) ELSE s

Strip(s) == RStrip(LStrip(s))

\* A gate_name argument: a str, or a value that is no str (None).
Str(chars) == [type |-> "str", chars |-> chars]
NotAStr == [type |-> "NoneType", chars |-> <<>>]

GateNames ==
    { Str(<<"h">>), Str(<<"x">>), Str(<<"y">>), Str(<<"z">>), Str(<<"c", "x">>),
      Str(<<" ", "H">>), Str(<<"C", "X", " ">>),
      Str(<<"s", "w", "a", "p">>), Str(<<>>), NotAStr }

SingleQubitGates == {<<"h">>, <<"x">>, <<"y">>, <<"z">>}
CX == <<"c", "x">>
supported_gates == SingleQubitGates \cup {CX}

\* Line 38; it raises AttributeError when gate_name has no .lower().
NormalizeRaises(gate_name) == gate_name.type # "str"
Normalize(gate_name) == Strip(Lower(gate_name.chars))

(***************************************************************************)
(* The circuit library, as the program uses it.                            *)
(***************************************************************************)
QuantumCircuit(num_qubits) == [num_qubits |-> num_qubits, data |-> <<>>]

\* An integer qubit specifier indexes the circuit's qubit list as a Python
\* list index: -n .. n-1 are accepted, anything else is a CircuitError.
QubitInRange(circuit, q) == -circuit.num_qubits <= q /\ q < circuit.num_qubits
QubitIndex(circuit, q) == IF q < 0 THEN q + circuit.num_qubits ELSE q

Ok(circuit) == [raised |-> FALSE, circuit |-> circuit]
Raise(circuit) == [raised |-> TRUE, circuit |-> circuit]

AppendGate(circuit, name, qubits) ==
    [circuit EXCEPT !.data = @ \o <<[name |-> name, qubits |-> qubits]>>]

\* circuit.h(q), circuit.x(q), circuit.y(q), circuit.z(q)
SingleQubitGate(circuit, name, q) ==
    IF QubitInRange(circuit, q)
    THEN Ok(AppendGate(circuit, name, <<QubitIndex(circuit, q)>>))
    ELSE Raise(circuit)

\* circuit.cx(control, target): both operands are resolved, duplicate qubit
\* arguments are refused, and only then is the instruction appended.
CxGate(circuit, control, target) ==
    IF /\ QubitInRange(circuit, control)
       /\ QubitInRange(circuit, target)
       /\ QubitIndex(circuit, control) # QubitIndex(circuit, target)
    THEN Ok(AppendGate(circuit, "cx",
                   <<QubitIndex(circuit, control), QubitIndex(circuit, target)>>))
    ELSE Raise(circuit)

\* circuit.depth(): every instruction sits one level above the highest
\* level already reached on any of its qubits.
RECURSIVE Levels(_, _)
Levels(data, n) ==
    IF data = <<>>
    THEN [q \in 0 .. n - 1 |-> 0]
    ELSE LET prev == Levels(SubSeq(data, 1, Len(data) - 1), n)
             g == data[Len(data)]
             qs == {g.qubits[i] : i \in 1 .. Len(g.qubits)}
             top == CHOOSE m \in {prev[q] : q \in qs} :
                        \A q \in qs : prev[q] <= m
         IN [q \in 0 .. n - 1 |-> IF q \in qs THEN top + 1 ELSE prev[q]]

Depth(circuit) ==
    LET lv == Levels(circuit.data, circuit.num_qubits)
    IN CHOOSE m \in {lv[q] : q \in 0 .. circuit.num_qubits - 1} :
           \A q \in 0 .. circuit.num_qubits - 1 : lv[q] <= m

\* str(circuit): the text drawing, one wire per qubit carrying the labels
\* of the instructions that touch it, in order.
RECURSIVE Wire(_, _)
Wire(data, q) ==
    IF data = <<>> THEN <<>>
    ELSE LET g == Head(data)
             on == \E i \in 1 .. Len(g.qubits) : g.qubits[i] = q
         IN (IF on THEN <<g.name>> ELSE <<>>) \o Wire(Tail(data), q)

TextDiagram(circuit) ==
    [q \in 0 .. circuit.num_qubits - 1 |-> Wire(circuit.data, q)]

(***************************************************************************)
(* create_circuit (lines 23-34)                                            *)
(***************************************************************************)
\* The handle a new object gets: one no live object has.
NewHandle(h) == CHOOSE r \in Handles : r \notin DOMAIN h

Alloc(h, circuit) ==
    LET r == NewHandle(h)
    IN [ref |-> r,
        heap |-> [x \in DOMAIN h \cup {r} |-> IF x = r THEN circuit ELSE h[x]]]

\* Mutant: the test lets zero through.
InvalidNumQubits_Negative(num_qubits) == num_qubits < 0

\* Line 26.
InvalidNumQubits(num_qubits) == num_qubits <= 0

create_circuit(h, num_qubits) ==
    IF InvalidNumQubits(num_qubits)
    THEN [raised |-> FALSE, value |-> None, heap |-> h,
          log |-> <<"Error creating circuit">>]
    ELSE LET a == Alloc(h, QuantumCircuit(num_qubits))
         IN [raised |-> FALSE, value |-> a.ref, heap |-> a.heap,
             log |-> <<"Created quantum circuit">>]

(***************************************************************************)
(* apply_gate (lines 36-71)                                                *)
(***************************************************************************)
\* Mutant: no wrap-around at the last index.
CxOperands_NoWrap(circuit, target_qubit, control_qubit) ==
    IF control_qubit # NoControl
    THEN <<control_qubit[1], target_qubit>>
    ELSE <<target_qubit, target_qubit + 1>>

\* Lines 54-63: the operands handed to circuit.cx, <<control, target>>.
CxOperands(circuit, target_qubit, control_qubit) ==
    IF control_qubit # NoControl
    THEN <<control_qubit[1], target_qubit>>
    ELSE IF target_qubit < circuit.num_qubits - 1
         THEN <<target_qubit, target_qubit + 1>>
         ELSE <<target_qubit, 0>>

\* Mutant: the branch for 'z' is missing.
Dispatch_NoZ(circuit, name, target_qubit, control_qubit) ==
    IF name \in SingleQubitGates \ {<<"z">>}
    THEN SingleQubitGate(circuit, name[1], target_qubit)
    ELSE IF name = CX
         THEN LET ops == CxOperands(circuit, target_qubit, control_qubit)
              IN CxGate(circuit, ops[1], ops[2])
         ELSE Ok(circuit)

\* Mutant: a name that matches nothing is applied as a Hadamard.
Dispatch_DefaultH(circuit, name, target_qubit, control_qubit) ==
    IF name \in SingleQubitGates
    THEN SingleQubitGate(circuit, name[1], target_qubit)
    ELSE IF name = CX
         THEN LET ops == CxOperands(circuit, target_qubit, control_qubit)
              IN CxGate(circuit, ops[1], ops[2])
         ELSE SingleQubitGate(circuit, "h", target_qubit)

\* Lines 41-66: the dispatch on the normalised name, on a circuit object.
Dispatch(circuit, name, target_qubit, control_qubit) ==
    IF name \in SingleQubitGates
    THEN SingleQubitGate(circuit, name[1], target_qubit)
    ELSE IF name = CX
         THEN LET ops == CxOperands(circuit, target_qubit, control_qubit)
              IN CxGate(circuit, ops[1], ops[2])
         ELSE Ok(circuit)

\* Where the result of the dispatch is stored: the object is mutated in place.
Store(h, circuit, obj) == [h EXCEPT ![circuit] = obj]

\* The diagnostic printed: line 70 after a caught failure, lines 43-63 after
\* a gate was applied, line 66 for a name that matches nothing.
DispatchLog(name, raised) ==
    IF raised THEN <<"Error applying gate">>
    ELSE IF name \in supported_gates THEN <<"Applied">>
    ELSE <<"Unknown gate">>

apply_gate(h, circuit, gate_name, target_qubit, control_qubit) ==
    IF NormalizeRaises(gate_name)
    THEN [raised |-> TRUE, value |-> None, heap |-> h, log |-> <<>>]
    ELSE LET name == Normalize(gate_name)
         IN IF circuit = None
            THEN \* A known name reaches an attribute of None (AttributeError,
                 \* caught at line 69); an unknown name touches nothing.
                 [raised |-> FALSE, value |-> circuit, heap |-> h,
                  log |-> DispatchLog(name, name \in supported_gates)]
            ELSE LET d == Dispatch(h[circuit], name, target_qubit, control_qubit)
                 IN [raised |-> FALSE, value |-> circuit,
                     heap |-> Store(h, circuit, d.circuit),
                     log |-> DispatchLog(name, d.raised)]

(***************************************************************************)
(* visualize_circuit (lines 73-152)                                        *)
(***************************************************************************)
\* What can go wrong inside the rich-image tier, by the place it goes wrong:
\*   "backend"  matplotlib.use / plt.ioff / plt.subplots  (lines 92-97)
\*   "draw"     circuit_drawer / ax.set_title             (lines 100-102)
\*   "savefig"  plt.savefig / base64 encoding             (lines 105-111)
Tier2Faults == {"none", "backend", "draw", "savefig"}

\* Line 97 has run and line 112 has not: the figure stays in pyplot's registry.
LeavesFigureOpen(fault) == fault \in {"draw", "savefig"}

\* Line 79.
NoCircuitText ==
    [kind |-> "text", markup |-> "No circuit to visualize"]

\* Mutant: the Gates span shows the depth.
ImageHtml_DepthAsGates(circuit) ==
    [kind |-> "image_html",
     markup |-> "<div style=border: 2px solid #4CAF50><img src=data:image/png;base64>",
     img |-> [drawing |-> circuit.data,
              title |-> <<circuit.num_qubits, Len(circuit.data)>>],
     qubits |-> circuit.num_qubits,
     gates |-> Depth(circuit),
     depth |-> Depth(circuit)]

\* Lines 117-130.
ImageHtml(circuit) ==
    [kind |-> "image_html",
     markup |-> "<div style=border: 2px solid #4CAF50><img src=data:image/png;base64>",
     img |-> [drawing |-> circuit.data,
              title |-> <<circuit.num_qubits, Len(circuit.data)>>],
     qubits |-> circuit.num_qubits,
     gates |-> Len(circuit.data),
     depth |-> Depth(circuit)]

\* Lines 136-147.
TextHtml(text_diagram, circuit) ==
    [kind |-> "text_html",
     markup |-> "<div style=border: 2px solid #ff9800><pre>",
     pre |-> text_diagram,
     qubits |-> circuit.num_qubits,
     gates |-> Len(circuit.data),
     depth |-> Depth(circuit)]

\* Mutant: the text-as-HTML fragment is built and returned whether or not
\* the rich-image tier failed.
RichImageOrFallback_AlwaysText(circuit, text_diagram, figs, fault) ==
    [value |-> TextHtml(text_diagram, circuit),
     open_figures |-> IF LeavesFigureOpen(fault) THEN figs + 1 ELSE figs,
     log |-> IF fault = "none"
             THEN <<"Matplotlib visualization successful">>
             ELSE <<"Matplotlib visualization failed">>]

\* Lines 91-147: tiers 2 and 3, after the text tier has produced text_diagram.
RichImageOrFallback(circuit, text_diagram, figs, fault) ==
    IF fault = "none"
    THEN [value |-> ImageHtml(circuit), open_figures |-> figs,
          log |-> <<"Matplotlib visualization successful">>]
    ELSE [value |-> TextHtml(text_diagram, circuit),
          open_figures |-> IF LeavesFigureOpen(fault) THEN figs + 1 ELSE figs,
          log |-> <<"Matplotlib visualization failed">>]

visualize_circuit(h, circuit, figs, fault) ==
    IF circuit = None
    THEN [raised |-> FALSE, value |-> NoCircuitText, open_figures |-> figs,
          log |-> <<>>]
    ELSE LET text_diagram == TextDiagram(h[circuit])
             r == RichImageOrFallback(h[circuit], text_diagram, figs, fault)
         IN [raised |-> FALSE, value |-> r.value,
             open_figures |-> r.open_figures,
             log |-> <<"Visualizing circuit", "TEXT-BASED CIRCUIT REPRESENTATION">>
                     \o r.log]

(***************************************************************************)
(* The tool wrappers (lines 157-194)                                       *)
(***************************************************************************)
\* `if current_circuit:` - a circuit object has __len__ (its number of
\* instructions), so its truth value is "holds at least one instruction".
Truthy(h, ref) == ref # None /\ Len(h[ref].data) > 0

Message(text) == [kind |-> "message", markup |-> text]

create_quantum_circuit(h, num_qubits) ==
    LET r == create_circuit(h, num_qubits)
    IN [raised |-> FALSE,
        current_circuit |-> r.value,
        heap |-> r.heap,
        log |-> r.log,
        value |-> IF Truthy(r.heap, r.value)
                  THEN Message("Successfully created quantum circuit")
                  ELSE Message("Failed to create quantum circuit")]

NoActiveCircuit == Message("No active quantum circuit. Please create a circuit first")
NoActiveCircuitToVisualize ==
    Message("No active quantum circuit to visualize. Please create a circuit first")

\* Mutant: the test for an empty slot is missing.
apply_quantum_gate_unguarded(h, slot, gate_type, target_qubit, control_qubit) ==
    LET r == apply_gate(h, slot, gate_type, target_qubit, control_qubit)
    IN IF r.raised
       THEN [raised |-> TRUE, current_circuit |-> slot, heap |-> r.heap,
             log |-> r.log, value |-> None]
       ELSE [raised |-> FALSE, current_circuit |-> r.value, heap |-> r.heap,
             log |-> r.log,
             value |-> IF control_qubit # NoControl
                       THEN Message("Applied gate with control qubit and target qubit")
                       ELSE Message("Applied gate to qubit")]

apply_quantum_gate(h, slot, gate_type, target_qubit, control_qubit) ==
    IF slot = None
    THEN [raised |-> FALSE, current_circuit |-> slot, heap |-> h, log |-> <<>>,
          value |-> NoActiveCircuit]
    ELSE LET r == apply_gate(h, slot, gate_type, target_qubit, control_qubit)
         IN IF r.raised
            THEN [raised |-> TRUE, current_circuit |-> slot, heap |-> r.heap,
                  log |-> r.log, value |-> None]
            ELSE [raised |-> FALSE, current_circuit |-> r.value, heap |-> r.heap,
                  log |-> r.log,
                  value |-> IF control_qubit # NoControl
                            THEN Message("Applied gate with control qubit and target qubit")
                            ELSE Message("Applied gate to qubit")]

visualize_quantum_circuit(h, slot, figs, fault) ==
    IF slot = None
    THEN [raised |-> FALSE, value |-> NoActiveCircuitToVisualize,
          open_figures |-> figs, log |-> <<>>]
    ELSE visualize_circuit(h, slot, figs, fault)

(***************************************************************************)
(* The state machine.  A call is one step; the caller then goes on to its  *)
(* next statement, where the record of the finished call is dropped.       *)
(***************************************************************************)
\* Objects no variable refers to any more are reclaimed.
Live(h, roots) == [x \in (DOMAIN h) \cap roots |-> h[x]]

NoCall == [op |-> "none", num_qubits |-> 0, circuit |-> None,
           gate_name |-> NotAStr, target_qubit |-> 0,
           control_qubit |-> NoControl, fault |-> "none"]

NoRet == [raised |-> FALSE, value |-> None, log |-> <<>>]

Returned(r) == [raised |-> r.raised, value |-> r.value, log |-> r.log]

Idle == call.op = "none"

Init ==
    /\ heap = << >>
    /\ qc = None
    /\ current_circuit = None
    /\ open_figures = 0
    /\ call = NoCall
    /\ ret = NoRet
    /\ old = << >>
    /\ last_create = <<>>

\* qc = create_circuit(num_qubits)
CreateCircuit ==
    /\ Idle
    /\ \E n \in QubitCounts :
        LET r == create_circuit(heap, n)
        IN /\ qc' = r.value
           /\ heap' = Live(r.heap, {r.value, current_circuit})
           /\ call' = [NoCall EXCEPT !.op = "create_circuit", !.num_qubits = n]
           /\ ret' = Returned(r)
    /\ old' = heap
    /\ UNCHANGED <<current_circuit, open_figures, last_create>>

\* qc = apply_gate(qc, gate_name, target_qubit, control_qubit)
ApplyGate ==
    /\ Idle
    /\ qc # None => Len(heap[qc].data) < MaxGates
    /\ \E g \in GateNames, t \in Operands, c \in Controls :
        LET r == apply_gate(heap, qc, g, t, c)
        IN /\ qc' = IF r.raised THEN qc ELSE r.value
           /\ heap' = Live(r.heap, {qc', current_circuit})
           /\ call' = [NoCall EXCEPT !.op = "apply_gate", !.circuit = qc,
                         !.gate_name = g, !.target_qubit = t,
                         !.control_qubit = c]
           /\ ret' = Returned(r)
    /\ old' = heap
    /\ UNCHANGED <<current_circuit, open_figures, last_create>>

\* viz = visualize_circuit(qc)
VisualizeCircuit ==
    /\ Idle
    /\ \E f \in Tier2Faults :
        LET r == visualize_circuit(heap, qc, open_figures, f)
        IN /\ r.open_figures <= MaxFigures
           /\ open_figures' = r.open_figures
           /\ call' = [NoCall EXCEPT !.op = "visualize_circuit", !.circuit = qc,
                         !.fault = f]
           /\ ret' = Returned(r)
    /\ old' = heap
    /\ UNCHANGED <<heap, qc, current_circuit, last_create>>

\* create_quantum_circuit(num_qubits)
CreateQuantumCircuit ==
    /\ Idle
    /\ \E n \in QubitCounts :
        LET r == create_quantum_circuit(heap, n)
        IN /\ current_circuit' = r.current_circuit
           /\ heap' = Live(r.heap, {qc, r.current_circuit})
           /\ call' = [NoCall EXCEPT !.op = "create_quantum_circuit",
                         !.num_qubits = n]
           /\ ret' = Returned(r)
           /\ last_create' = <<n>>
    /\ old' = heap
    /\ UNCHANGED <<qc, open_figures>>

\* apply_quantum_gate(gate_type, target_qubit, control_qubit)
ApplyQuantumGate ==
    /\ Idle
    /\ current_circuit # None => Len(heap[current_circuit].data) < MaxGates
    /\ \E g \in GateNames, t \in Operands, c \in Controls :
        LET r == apply_quantum_gate(heap, current_circuit, g, t, c)
        IN /\ current_circuit' = r.current_circuit
           /\ heap' = Live(r.heap, {qc, r.current_circuit})
           /\ call' = [NoCall EXCEPT !.op = "apply_quantum_gate",
                         !.circuit = current_circuit, !.gate_name = g,
                         !.target_qubit = t, !.control_qubit = c]
           /\ ret' = Returned(r)
    /\ old' = heap
    /\ UNCHANGED <<qc, open_figures, last_create>>

\* visualize_quantum_circuit()
VisualizeQuantumCircuit ==
    /\ Idle
    /\ \E f \in Tier2Faults :
        LET r == visualize_quantum_circuit(heap, current_circuit, open_figures, f)
        IN /\ r.open_figures <= MaxFigures
           /\ open_figures' = r.open_figures
           /\ call' = [NoCall EXCEPT !.op = "visualize_quantum_circuit",
                         !.circuit = current_circuit, !.fault = f]
           /\ ret' = Returned(r)
    /\ old' = heap
    /\ UNCHANGED <<heap, qc, current_circuit, last_create>>

\* The caller goes on to its next statement.
Continue ==
    /\ ~Idle
    /\ call' = NoCall
    /\ ret' = NoRet
    /\ old' = << >>
    /\ UNCHANGED <<heap, qc, current_circuit, open_figures, last_create>>

\* The core functions, called on an explicit circuit.
Next == CreateCircuit \/ ApplyGate \/ VisualizeCircuit \/ Continue

Spec == Init /\ [][Next]_vars

\* The tool wrappers, called against the current_circuit slot.
NextTools ==
    CreateQuantumCircuit \/ ApplyQuantumGate \/ VisualizeQuantumCircuit \/ Continue

SpecTools == Init /\ [][NextTools]_vars

(***************************************************************************)
(* The properties.  `call` holds the finished call and its arguments,      *)
(* `old` the heap the call was made on, `ret` what the call gave back.     *)
(***************************************************************************)
Called(op) == call.op = op

\* The circuit object handed to the call, as it was and as it is now.
ArgBefore == old[call.circuit]
ArgAfter == heap[call.circuit]

ValidIndex(circuit, q) == q \in 0 .. circuit.num_qubits - 1
LastGate(circuit) == circuit.data[Len(circuit.data)]

\* The call got back the handle it passed, and the caller holds it.
SameHandle == ~ret.raised /\ ret.value = call.circuit /\ qc = call.circuit

\* One instruction more than before, the earlier ones untouched.
OneGateAppended ==
    /\ ArgAfter.num_qubits = ArgBefore.num_qubits
    /\ Len(ArgAfter.data) = Len(ArgBefore.data) + 1
    /\ SubSeq(ArgAfter.data, 1, Len(ArgBefore.data)) = ArgBefore.data

\* C1: create_circuit(n) with n > 0 returns a circuit of n qubits and no
\* gates; with n <= 0 it returns None; it never raises.
C1_CreateContract ==
    Called("create_circuit") =>
        /\ ~ret.raised
        /\ call.num_qubits > 0 =>
              /\ ret.value \in DOMAIN heap
              /\ heap[ret.value].num_qubits = call.num_qubits
              /\ Len(heap[ret.value].data) = 0
        /\ call.num_qubits <= 0 => ret.value = None

C1_Witness ==
    /\ Called("create_circuit")
    /\ call.num_qubits = MaxQubits
    /\ ret.value \in DOMAIN heap
    /\ heap[ret.value].num_qubits = MaxQubits

\* C2: apply_gate with a tag in {h, x, y, z} and a target in [0, num_qubits)
\* adds exactly one gate, keeps the qubit count and returns the handle it
\* was given, the object having been changed in place.
C2_SingleQubitGateAppends ==
    ( /\ Called("apply_gate")
      /\ call.circuit # None
      /\ call.gate_name \in {Str(g) : g \in SingleQubitGates}
      /\ ValidIndex(ArgBefore, call.target_qubit) )
    => /\ SameHandle
       /\ OneGateAppended
       /\ LastGate(ArgAfter) =
              [name |-> call.gate_name.chars[1], qubits |-> <<call.target_qubit>>]

C2_Witness ==
    /\ Called("apply_gate")
    /\ call.circuit # None
    /\ call.gate_name = Str(<<"z">>)
    /\ call.target_qubit = ArgBefore.num_qubits - 1
    /\ Len(ArgBefore.data) = 1
    /\ Len(ArgAfter.data) = 2

\* The wiring apply_gate('cx') is to produce, <<control, target>>.
CxWiring(n, target, control) ==
    IF control # NoControl THEN <<control[1], target>>
    ELSE IF target < n - 1 THEN <<target, target + 1>>
    ELSE <<n - 1, 0>>

CxCase ==
    /\ Called("apply_gate")
    /\ call.circuit # None
    /\ call.gate_name = Str(CX)
    /\ ValidIndex(ArgBefore, call.target_qubit)
    /\ call.control_qubit # NoControl =>
          /\ ValidIndex(ArgBefore, call.control_qubit[1])
          /\ call.control_qubit[1] # call.target_qubit

CxAppended ==
    /\ SameHandle
    /\ OneGateAppended
    /\ LastGate(ArgAfter) =
           [name |-> "cx",
            qubits |-> CxWiring(ArgBefore.num_qubits, call.target_qubit,
                                call.control_qubit)]

C4_UnknownGateIgnored ==
    ( /\ Called("apply_gate")
      /\ call.gate_name.type = "str"
      /\ Strip(Lower(call.gate_name.chars)) \notin supported_gates )
    => /\ SameHandle
       /\ heap = old
       /\ ret.log = <<"Unknown gate">>

C4_Witness ==
    /\ Called("apply_gate")
    /\ call.circuit # None
    /\ call.gate_name = Str(<<"s", "w", "a", "p">>)
    /\ ValidIndex(ArgBefore, call.target_qubit)
    /\ Len(ArgBefore.data) = 1
    /\ ret.value = call.circuit

\* C5: with a recognised tag, a target outside [0, n) - negative indices
\* included - or, for CX, an explicit control outside [0, n) or equal to the
\* target, apply_gate returns the same circuit with its gate sequence as it
\* was and does not raise.
C5_BadOperandsRejected ==
    ( /\ Called("apply_gate")
      /\ call.circuit # None
      /\ call.gate_name.type = "str"
      /\ Strip(Lower(call.gate_name.chars)) \in supported_gates
      /\ \/ ~ValidIndex(ArgBefore, call.target_qubit)
         \/ /\ Strip(Lower(call.gate_name.chars)) = CX
            /\ call.control_qubit # NoControl
            /\ \/ ~ValidIndex(ArgBefore, call.control_qubit[1])
               \/ call.control_qubit[1] = call.target_qubit )
    => /\ SameHandle
       /\ ArgAfter = ArgBefore

\* C6: create_circuit, apply_gate and visualize_circuit never raise to
\* their caller, whatever the arguments.
C6_NeverRaises ==
    (Called("create_circuit") \/ Called("apply_gate") \/ Called("visualize_circuit"))
    => ~ret.raised

TextTierLog == <<"Visualizing circuit", "TEXT-BASED CIRCUIT REPRESENTATION">>

\* C7: visualize_circuit returns one artifact by the ordered chain: on an
\* absent circuit the short text error at once, no tier attempted; otherwise
\* the text tier, then the rich-image tier, and the text-as-HTML artifact
\* exactly when the rich-image tier failed, built from the text tier's
\* diagram and carrying the same qubit count, gate count and depth; the
\* failure never reaches the caller.
C7_FallbackChain ==
    Called("visualize_circuit") =>
        /\ ~ret.raised
        /\ call.circuit = None => (ret.value = NoCircuitText /\ ret.log = <<>>)
        /\ call.circuit # None =>
              /\ Len(ret.log) = 3
              /\ SubSeq(ret.log, 1, 2) = TextTierLog
              /\ ret.log[3] \in {"Matplotlib visualization successful",
                                 "Matplotlib visualization failed"}
              /\ ret.value.kind \in {"image_html", "text_html"}
              /\ ret.value.kind = "text_html" <=>
                     ret.log[3] = "Matplotlib visualization failed"
              /\ ret.log[3] = "Matplotlib visualization failed" <=>
                     call.fault # "none"
              /\ ret.value.kind = "text_html" =>
                     /\ "img" \notin DOMAIN ret.value
                     /\ ret.value.pre = TextDiagram(ArgBefore)
                     /\ ret.value.qubits = ArgBefore.num_qubits
                     /\ ret.value.gates = Len(ArgBefore.data)
                     /\ ret.value.depth = Depth(ArgBefore)
              /\ ret.value.kind = "image_html" => "pre" \notin DOMAIN ret.value

C7_Witness ==
    /\ Called("visualize_circuit")
    /\ call.circuit # None
    /\ call.fault = "draw"
    /\ Len(ArgBefore.data) = MaxGates
    /\ ret.value.kind = "text_html"

BellCircuit ==
    [num_qubits |-> 2,
     data |-> <<[name |-> "h", qubits |-> <<0>>],
                [name |-> "cx", qubits |-> <<0, 1>>]>>]

\* C8: on a circuit built by create_circuit and apply_gate calls,
\* visualize_circuit returns a non-empty string reporting the circuit's
\* qubit count and the number of gates appended, whichever tier produced
\* it, and leaves the circuit as it was; the Bell circuit reports 2 and 2.
C8_ArtifactReportsCounts ==
    (Called("visualize_circuit") /\ call.circuit # None) =>
        /\ ~ret.raised
        /\ ret.value.markup # ""
        /\ ret.value.qubits = ArgAfter.num_qubits
        /\ ret.value.gates = Len(ArgAfter.data)
        /\ heap = old
        /\ qc = call.circuit
        /\ ArgAfter = BellCircuit => (ret.value.qubits = 2 /\ ret.value.gates = 2)

C8_Witness ==
    /\ Called("visualize_circuit")
    /\ call.circuit # None
    /\ call.fault = "none"
    /\ ArgAfter = BellCircuit
    /\ ret.value.kind = "image_html"
    /\ ret.value.gates = 2

\* C9: with the current_circuit slot empty, apply_quantum_gate and
\* visualize_quantum_circuit return a 'no active circuit' string, do not
\* raise and leave the slot empty; and the slot holds a circuit exactly
\* when the last create_quantum_circuit call was given num_qubits > 0.
C9_NoActiveCircuit ==
    /\ (Called("apply_quantum_gate") /\ call.circuit = None) =>
          /\ ~ret.raised
          /\ ret.value = NoActiveCircuit
          /\ current_circuit = None
          /\ heap = old
    /\ (Called("visualize_quantum_circuit") /\ call.circuit = None) =>
          /\ ~ret.raised
          /\ ret.value = NoActiveCircuitToVisualize
          /\ current_circuit = None
          /\ heap = old
    /\ current_circuit # None <=> (last_create # <<>> /\ last_create[1] > 0)
    /\ current_circuit # None => current_circuit \in DOMAIN heap

C9_Witness ==
    /\ Called("apply_quantum_gate")
    /\ call.circuit = None
    /\ last_create = <<0>>
    /\ call.gate_name = Str(<<"h">>)
    /\ ret.value = NoActiveCircuit

\* C10: every figure the rich-image tier opens is closed before
\* visualize_circuit returns, so no figure is ever left open.
C10_NoFigureLeftOpen == open_figures = 0

=============================================================================
